---- MODULE Spec2Model ----
(***************************************************************************)
(* Model of the e-commerce product assistant:                              *)
(*   - the agentic workflow graph of AgenticRAG                            *)
(*     (workflow/agentic_workflow_with_mcp_websearch.py),                  *)
(*   - the two tools of the MCP tool server                                *)
(*     (mcp_servers/product_search_server.py),                             *)
(*   - the retrieve-then-fallback client (mcp_servers/client.py),          *)
(*   - the CSV writer of the scraper and the ingestion pipeline            *)
(*     (etl/data_scrapper.py, etl/data_ingestion.py),                      *)
(*   - the retriever (retriever/retrieval.py).                             *)
(* Text is modelled as a sequence of one-character strings, so that        *)
(* lower(), strip(), the substring test `in` and f-string formatting are   *)
(* computed character by character as Python computes them.                *)
(***************************************************************************)
EXTENDS Integers, Sequences, FiniteSets, TLC

(***************************************************************************)
(* Bounds of the model.                                                    *)
(***************************************************************************)
\* number of calls of AgenticRAG.run that may be in progress at a time
MaxConc == 2
\* run is called on a thread only while the thread holds at most this many
\* messages, which bounds the length of a conversation
MaxHistory == 2
\* number of times mcp_client.get_tools() may fail
MaxInitFailures == 1
\* largest number of documents the retriever hands back in one call
MaxDocs == 2
\* number of tool calls served by the tool server
MaxCalls == 2

(***************************************************************************)
(* Python str operations.                                                  *)
(***************************************************************************)
UpperChars == <<"A", "B", "C", "D", "E", "F", "G", "H", "I", "J", "K", "L", "M",
                "N", "O", "P", "Q", "R", "S", "T", "U", "V", "W", "X", "Y", "Z">>

LowerChars == <<"a", "b", "c", "d", "e", "f", "g", "h", "i", "j", "k", "l", "m",
                "n", "o", "p", "q", "r", "s", "t", "u", "v", "w", "x", "y", "z">>

\* str.lower() on one character
LowerChar(c) ==
    IF \E i \in 1..Len(UpperChars) : UpperChars[i] = c
    THEN LowerChars[CHOOSE i \in 1..Len(UpperChars) : UpperChars[i] = c]
    ELSE c

\* str.lower()
lower(s) == [i \in 1..Len(s) |-> LowerChar(s[i])]

\* the Python test `sub in s` on strings
Contains(s, sub) ==
    \E i \in 0..(Len(s) - Len(sub)) : SubSeq(s, i + 1, i + Len(sub)) = sub

IsSpace(c) == c \in {" ", "\n", "\t"}

\* str.strip()
strip(s) ==
    LET keep == {i \in 1..Len(s) : ~IsSpace(s[i])}
    IN  IF keep = {} THEN <<>>
        ELSE SubSeq(s, CHOOSE i \in keep : \A j \in keep : i <= j,
                       CHOOSE i \in keep : \A j \in keep : j <= i)

\* str taken for true whatever it holds
Truthy_always(s) == TRUE

\* truth value of a Python str: only the empty string is falsy
Truthy(s) == s # <<>>

(***************************************************************************)
(* String literals of the source.                                          *)
(***************************************************************************)
STR_price == <<"p", "r", "i", "c", "e">>
STR_review == <<"r", "e", "v", "i", "e", "w">>
STR_product == <<"p", "r", "o", "d", "u", "c", "t">>
\* the keyword list of _ai_assistant
KEYWORDS == {STR_price, STR_review, STR_product}
\* "TOOL: retriever", the routing sentinel appended by _ai_assistant
STR_TOOL_retriever ==
    <<"T", "O", "O", "L", ":", " ", "r", "e", "t", "r", "i", "e", "v", "e", "r">>
\* "TOOL", the marker the conditional edge after Assistant looks for
STR_TOOL == <<"T", "O", "O", "L">>
\* "yes", the affirmative token _grade_documents looks for
STR_yes == <<"y", "e", "s">>
STR_No_data == <<"N", "o", " ", "d", "a", "t", "a">>
STR_No_data_from_web ==
    <<"N", "o", " ", "d", "a", "t", "a", " ", "f", "r", "o", "m", " ", "w", "e", "b">>
STR_No_local_results ==
    <<"N", "o", " ", "l", "o", "c", "a", "l", " ", "r", "e", "s", "u", "l", "t",
      "s", " ", "f", "o", "u", "n", "d", ".">>
STR_Error_retrieving ==
    <<"E", "r", "r", "o", "r", " ", "r", "e", "t", "r", "i", "e", "v", "i", "n",
      "g", " ", "p", "r", "o", "d", "u", "c", "t", " ", "i", "n", "f", "o", ":", " ">>
STR_Error_web ==
    <<"E", "r", "r", "o", "r", " ", "d", "u", "r", "i", "n", "g", " ", "w", "e",
      "b", " ", "s", "e", "a", "r", "c", "h", ":", " ">>
STR_Title == <<"T", "i", "t", "l", "e", ":", " ">>
STR_Price == <<"\n", "P", "r", "i", "c", "e", ":", " ">>
STR_Rating == <<"\n", "R", "a", "t", "i", "n", "g", ":", " ">>
STR_Reviews == <<"\n", "R", "e", "v", "i", "e", "w", "s", ":", "\n">>
STR_SEP == <<"\n", "\n", "-", "-", "-", "\n", "\n">>
STR_NA == <<"N", "/", "A">>

(***************************************************************************)
(* Tool server: product_search_server.py                                   *)
(***************************************************************************)
\* dict.get(key, 'N/A') on a document's metadata
MetaGet(meta, key) == IF key \in DOMAIN meta THEN meta[key] ELSE STR_NA

\* the f-string built for one document in format_docs
FormatChunk(d) ==
    STR_Title \o MetaGet(d.metadata, "product_title")
      \o STR_Price \o MetaGet(d.metadata, "price")
      \o STR_Rating \o MetaGet(d.metadata, "rating")
      \o STR_Reviews \o strip(d.page_content)

\* "\n\n---\n\n".join(chunks)
RECURSIVE JoinChunks(_)
JoinChunks(chunks) ==
    IF chunks = <<>> THEN <<>>
    ELSE IF Len(chunks) = 1 THEN chunks[1]
    ELSE chunks[1] \o STR_SEP \o JoinChunks(Tail(chunks))

\* format_docs returning from inside its loop: only the first document
format_docs_first_only(docs) ==
    IF docs = <<>> THEN <<>> ELSE FormatChunk(docs[1])

\* format_docs(docs)
format_docs(docs) ==
    IF docs = <<>> THEN <<>>
    ELSE JoinChunks([i \in 1..Len(docs) |-> FormatChunk(docs[i])])

\* A tool call ends either with a returned str or with an exception that
\* leaves the tool function.
Returned(s) == [kind |-> "str", text |-> s]
Raised(msg) == [kind |-> "exception", text |-> msg]

\* get_product_info(query), given what retriever.invoke(query) does:
\* [raises |-> FALSE, docs |-> ...] or [raises |-> TRUE, msg |-> str(e)]
get_product_info(outcome) ==
    IF outcome.raises
    THEN Returned(STR_Error_retrieving \o outcome.msg)
    ELSE LET context == format_docs(outcome.docs)
         IN  IF ~Truthy(strip(context))
             THEN Returned(STR_No_local_results)
             ELSE Returned(context)

\* web_search without its try/except
web_search_unguarded(outcome) ==
    IF outcome.raises THEN Raised(outcome.msg) ELSE Returned(outcome.text)

\* web_search(query), given what duckduckgo.run(query) does:
\* [raises |-> FALSE, text |-> ...] or [raises |-> TRUE, msg |-> str(e)]
web_search(outcome) ==
    IF outcome.raises
    THEN Returned(STR_Error_web \o outcome.msg)
    ELSE Returned(outcome.text)

(***************************************************************************)
(* Inputs of the model: sample texts for the user, the language model, the *)
(* retriever and the search engine.                                        *)
(***************************************************************************)
\* queries passed to run: "Price?" (keyword in another case), "reviews"
\* (keyword inside a longer word), "hi" (no keyword)
Q_Price == <<"P", "r", "i", "c", "e", "?">>
Q_reviews == <<"r", "e", "v", "i", "e", "w", "s">>
Q_hi == <<"h", "i">>
Queries == {Q_Price, Q_reviews, Q_hi}

\* thread identifiers passed to run; "default_thread" is the default
Threads == {"default_thread", "t2"}

\* texts the language model may reply with: "Yes", "no", " TOOL" (leading
\* blank) and the empty text
LLMReplies == {<<"Y", "e", "s">>, <<"n", "o">>, <<" ", "T", "O", "O", "L">>, <<>>}

\* documents the retriever may hand back
DOC_full == [metadata |-> [product_title |-> <<"A">>, price |-> <<"9">>, rating |-> <<"5">>],
             page_content |-> <<" ", "o", "k", "\n">>]
DOC_bare == [metadata |-> [k \in {} |-> <<>>], page_content |-> <<"b">>]
DOC_blank == [metadata |-> [product_title |-> <<"B">>], page_content |-> <<" ">>]
Docs == {DOC_full, DOC_bare, DOC_blank}

\* str(e) of the exceptions the retriever or the search engine may raise
ErrorTexts == {<<"d", "b">>, <<>>}

RECURSIVE SeqsUpTo(_, _)
SeqsUpTo(S, n) ==
    IF n = 0 THEN {<<>>}
    ELSE LET shorter == SeqsUpTo(S, n - 1)
         IN  shorter \cup {Append(q, x) : q \in {p \in shorter : Len(p) = n - 1}, x \in S}

\* what retriever.invoke(query) may do inside get_product_info
RetrieverOutcomes ==
    {[raises |-> FALSE, docs |-> ds, msg |-> <<>>] : ds \in SeqsUpTo(Docs, MaxDocs)}
      \cup {[raises |-> TRUE, docs |-> <<>>, msg |-> m] : m \in ErrorTexts}

\* what duckduckgo.run(query) may do inside web_search
SearchOutcomes ==
    {[raises |-> FALSE, text |-> t, msg |-> <<>>] : t \in {<<>>, <<"w", "e", "b">>}}
      \cup {[raises |-> TRUE, text |-> <<>>, msg |-> m] : m \in ErrorTexts}

\* the outcomes the workflow's tool nodes are driven with
WfRetrieverOutcomes ==
    {[raises |-> FALSE, docs |-> <<>>, msg |-> <<>>],
     [raises |-> FALSE, docs |-> <<DOC_full>>, msg |-> <<>>],
     [raises |-> TRUE, docs |-> <<>>, msg |-> <<"d", "b">>]}

\* what the get_product_info tool hands to the workflow: the text the
\* server's function returns, or a result without text
WfRetrieverAnswers == {get_product_info(o) : o \in WfRetrieverOutcomes} \cup {Returned(<<>>)}

WfSearchOutcomes ==
    {[raises |-> FALSE, text |-> <<>>, msg |-> <<>>],
     [raises |-> FALSE, text |-> <<"w", "e", "b">>, msg |-> <<>>]}

(***************************************************************************)
(* State.                                                                  *)
(***************************************************************************)
VARIABLES
    mcp_tools,       \* AgenticRAG.mcp_tools: None or the discovered tools
    get_tools_calls, \* number of calls of mcp_client.get_tools()
    checkpointer,    \* MemorySaver: thread id -> state["messages"] (contents)
    runs,            \* one record per call of AgenticRAG.run
    srv,             \* the tool server's last served call
    client,          \* the run of main of mcp_servers/client.py
    etl,             \* the CSV file, the DataIngestion object and the vector store
    retr             \* the Retriever object of retriever/retrieval.py

vars == <<mcp_tools, get_tools_calls, checkpointer, runs, srv, client, etl, retr>>

RunIds == 1..MaxConc

TOOL_NAMES == {"get_product_info", "web_search"}

\* the two values of self.mcp_tools: None, and the list get_tools() returned
None == [is_none |-> TRUE, names |-> {}]
Tools(names) == [is_none |-> FALSE, names |-> names]

NoResult == [kind |-> "none", text |-> <<>>]

IdleRun ==
    [pc |-> "idle", query |-> <<>>, thread |-> "default_thread",
     base |-> 0,             \* messages the thread held when the run began
     visited |-> <<>>,       \* nodes executed, in order
     outs |-> <<>>,          \* contents returned by the completed nodes
     graded |-> 0,           \* evaluations of _grade_documents
     score |-> <<>>,         \* the reply _grade_documents got
     decision |-> "none",    \* what _grade_documents returned
     llm_calls |-> <<>>,     \* [by, ok] of each call of the generation capability
     tool_calls |-> <<>>,    \* [tool, query, ok, result] of each tool invocation
     grade_input |-> [docs |-> <<>>, question |-> <<>>],
     rewrite_input |-> <<>>, \* the question _rewrite read
     gen_input |-> [context |-> <<>>, question |-> <<>>],
     result |-> NoResult]

NoCall == [n |-> 0, tool |-> "none", query |-> <<>>,
           outcome |-> [raises |-> FALSE, msg |-> <<>>], result |-> NoResult]

\* the ETL side before anything ran: no CSV file written by the scraper, no
\* DataIngestion object, an empty vector store
NoFile == [exists |-> FALSE, text |-> <<>>]
File(text) == [exists |-> TRUE, text |-> text]
NoFrame == [columns |-> <<>>, data |-> <<>>]

EtlStart ==
    [file |-> NoFile,          \* data/product_reviews.csv as save_to_csv left it
     written |-> <<>>,         \* the rows last passed to save_to_csv
     read |-> NoFile,          \* the file DataIngestion found at csv_path
     obj |-> "none",           \* DataIngestion(): none, constructed or raised
     error |-> "none",         \* the exception __init__ or transform_data raised
     product_data |-> NoFrame, \* self.product_data
     transformed |-> FALSE,    \* transform_data returned
     documents |-> <<>>,       \* the list transform_data returned
     stored |-> <<>>]          \* the documents in the vector store

\* self.retriever_instance of a Retriever: None, or a retriever with its k
NoInstance == [is_none |-> TRUE, k |-> 0]
Instance(k) == [is_none |-> FALSE, k |-> k]

\* the configuration before load_config() ran
NoConfig == [has_retriever |-> FALSE, has_top_k |-> FALSE, top_k |-> 0]

\* no Retriever object constructed yet
NoRetriever ==
    [built |-> FALSE,              \* Retriever() returned
     config |-> NoConfig,          \* self.config
     vstore |-> FALSE,             \* self.vstore is set
     retriever_instance |-> NoInstance,
     error |-> "none",             \* the exception the last call raised
     query |-> <<>>,               \* the query of the last call_retriever
     output |-> <<>>]              \* what the last call_retriever returned

\* main of client.py before its first statement
ClientStart ==
    [pc |-> "start", query |-> <<>>,
     retriever_result |-> <<>>,    \* the variable retriever_result
     web_result |-> <<>>,          \* the variable web_result
     retriever_answer |-> NoResult, \* what the get_product_info invocation did
     web_answer |-> NoResult,      \* what the web_search invocation did
     invoked |-> <<>>,             \* [tool, query] of each tool.ainvoke, in order
     printed |-> <<>>]             \* [label, text] of each result printed

Init ==
    /\ mcp_tools = None
    /\ get_tools_calls = 0
    /\ checkpointer = [t \in Threads |-> <<>>]
    /\ runs = [r \in RunIds |-> IdleRun]
    /\ srv = NoCall
    /\ client = ClientStart
    /\ etl = EtlStart
    /\ retr = NoRetriever

Last(s) == s[Len(s)]

Range(q) == {q[i] : i \in DOMAIN q}

\* state["messages"] of run r
Messages(r) == checkpointer[runs[r].thread]

\* a messages field without reducer: the update replaces the value
add_messages_overwrite(left, right) == right

\* add_messages: the reducer of AgentState.messages
add_messages(left, right) == left \o right

Terminal(r) == runs[r].pc \in {"idle", "returned", "raised"}

(***************************************************************************)
(* The generation capability and the tool invocations as seen by a node.   *)
(***************************************************************************)
\* chain.invoke(...): a reply text, or an exception
LLMOutcomes == {Returned(t) : t \in LLMReplies} \cup {Raised(<<>>)}

\* next(t for t in self.mcp_tools if t.name == name) followed by
\* tool.ainvoke({"query": query}): the str the server's tool function
\* returned, or an exception when the tool is missing or the call fails
ToolInvoke(name, served) ==
    IF name \notin mcp_tools.names
    THEN {Raised(<<>>)}
    ELSE served \cup {Raised(<<>>)}

\* the records kept of the calls a run makes
LLMCall(by, outcome) == [by |-> by, ok |-> outcome.kind = "str"]
ToolCall(tool, query, outcome) ==
    [tool |-> tool, query |-> query, ok |-> outcome.kind = "str", result |-> outcome.text]

\* the keyword test without .lower()
HasKeyword_case_sensitive(text) == \E word \in KEYWORDS : Contains(text, word)

\* `word in last_message.lower()` for some word of the keyword list
HasKeyword(text) == \E word \in KEYWORDS : Contains(lower(text), word)

\* the conditional edge after Assistant
route_after_assistant(messages) ==
    IF Contains(Last(messages), STR_TOOL) THEN "Retriever" ELSE "END"

\* the affirmative test that takes an empty reply for a yes
grade_empty_is_yes(score) ==
    IF score = <<>> \/ Contains(lower(score), STR_yes) THEN "generator" ELSE "rewriter"

\* the affirmative test without .lower()
grade_case_sensitive(score) ==
    IF Contains(score, STR_yes) THEN "generator" ELSE "rewriter"

\* the return value of _grade_documents for a reply of the language model
grade(score) == IF Contains(lower(score), STR_yes) THEN "generator" ELSE "rewriter"

\* the path map with 'rewriter' sent back to Retriever
grade_target_retry(decision) ==
    IF decision = "generator" THEN "Generator" ELSE "Retriever"

\* the path map of the conditional edge after Retriever
grade_target(decision) ==
    IF decision = "generator" THEN "Generator" ELSE "Rewriter"

\* the edges with WebSearch sent to the Grader instead of Generator
edge_regrade(node) ==
    CASE node = "Generator" -> "END"
      [] node = "Rewriter" -> "WebSearch"
      [] node = "WebSearch" -> "Grader"

\* the edges of _build_workflow that leave a node without a condition
edge(node) ==
    CASE node = "Generator" -> "END"
      [] node = "Rewriter" -> "WebSearch"
      [] node = "WebSearch" -> "Generator"

\* a node whose message lands in the state of the default thread
NodeDone_one_thread(r, node, content, next, extra) ==
    /\ checkpointer' = [checkpointer EXCEPT
                          !["default_thread"] = add_messages(@, <<content>>)]
    /\ runs' = [runs EXCEPT ![r] =
                  [extra EXCEPT !.pc = next,
                                !.visited = Append(@, node),
                                !.outs = Append(@, content)]]

\* a node returned {"messages": [HumanMessage(content)]}: the reducer adds
\* the message to the thread's state and the graph moves to `next`
NodeDone(r, node, content, next, extra) ==
    /\ checkpointer' = [checkpointer EXCEPT
                          ![runs[r].thread] = add_messages(@, <<content>>)]
    /\ runs' = [runs EXCEPT ![r] =
                  [extra EXCEPT !.pc = next,
                                !.visited = Append(@, node),
                                !.outs = Append(@, content)]]

\* a node that catches the exception and returns an empty message
NodeRaised_swallowed(r, node, extra) ==
    NodeDone(r, node, <<>>, IF node = "Assistant" THEN "END" ELSE "Generator", extra)

\* a node raised: nothing is written, the exception leaves ainvoke and run
NodeRaised(r, node, extra) ==
    /\ checkpointer' = checkpointer
    /\ runs' = [runs EXCEPT ![r] =
                  [extra EXCEPT !.pc = "raised",
                                !.visited = Append(@, node),
                                !.result = Raised(<<>>)]]

\* the routing predicate raised: the exception leaves ainvoke and run
PredicateRaised(r, extra) ==
    runs' = [runs EXCEPT ![r] =
               [extra EXCEPT !.pc = "raised", !.result = Raised(<<>>)]]

\* the first message returned instead of the last
final_answer_first(messages) == messages[1]

\* result["messages"][-1].content
final_answer(messages) == Last(messages)

(***************************************************************************)
(* AgenticRAG.run                                                          *)
(***************************************************************************)
\* run(query, thread_id) is called: the test `self.mcp_tools is None`.
\* No two runs use one thread identifier at a time.
Run(r, query, thread) ==
    /\ Terminal(r)
    /\ \A o \in RunIds : ~Terminal(o) => runs[o].thread # thread
    /\ Len(checkpointer[thread]) <= MaxHistory
    /\ runs' = [runs EXCEPT ![r] =
                  [IdleRun EXCEPT !.pc = IF mcp_tools = None THEN "async_init" ELSE "ainvoke",
                                  !.query = query,
                                  !.thread = thread]]
    /\ UNCHANGED <<mcp_tools, get_tools_calls, checkpointer, srv, client, etl, retr>>

\* calls of run(query) that follow one another, each awaited before the
\* next; thread_id takes its default
SequentialRun(query) ==
    /\ \A o \in RunIds : Terminal(o)
    /\ Run(1, query, "default_thread")

\* async_init: self.mcp_tools = await self.mcp_client.get_tools()
async_init(r) ==
    /\ runs[r].pc = "async_init"
    /\ get_tools_calls' = get_tools_calls + 1
    /\ \/ /\ mcp_tools' = Tools(TOOL_NAMES)
          /\ runs' = [runs EXCEPT ![r].pc = "ainvoke"]
       \/ /\ get_tools_calls < MaxInitFailures
          /\ mcp_tools' = mcp_tools
          /\ runs' = [runs EXCEPT ![r].pc = "raised", ![r].result = Raised(<<>>)]
    /\ UNCHANGED <<checkpointer, srv, client, etl, retr>>

\* self.app.ainvoke({"messages": [HumanMessage(content=query)]}, config):
\* the input is added to the state the checkpointer holds for the thread
\* and the graph starts at START -> Assistant
ainvoke(r) ==
    /\ runs[r].pc = "ainvoke"
    /\ checkpointer' = [checkpointer EXCEPT
                          ![runs[r].thread] = add_messages(@, <<runs[r].query>>)]
    /\ runs' = [runs EXCEPT ![r].pc = "Assistant",
                            ![r].base = Len(checkpointer[runs[r].thread])]
    /\ UNCHANGED <<mcp_tools, get_tools_calls, srv, client, etl, retr>>

\* _ai_assistant, then the conditional edge after Assistant
_ai_assistant(r) ==
    /\ runs[r].pc = "Assistant"
    /\ LET last_message == Last(Messages(r))
       IN  IF HasKeyword(last_message)
           THEN NodeDone(r, "Assistant", STR_TOOL_retriever,
                         route_after_assistant(Append(Messages(r), STR_TOOL_retriever)),
                         runs[r])
           ELSE \E response \in LLMOutcomes :
                  LET called == [runs[r] EXCEPT
                                   !.llm_calls = Append(@, LLMCall("Assistant", response))]
                  IN  IF response.kind = "exception"
                      THEN NodeRaised(r, "Assistant", called)
                      ELSE NodeDone(r, "Assistant", response.text,
                                    route_after_assistant(Append(Messages(r), response.text)),
                                    called)
    /\ UNCHANGED <<mcp_tools, get_tools_calls, srv, client, etl, retr>>

\* _vector_retriever; the edge out of Retriever is _grade_documents
_vector_retriever(r) ==
    /\ runs[r].pc = "Retriever"
    /\ LET query == Last(Messages(r))
       IN  \E result \in ToolInvoke("get_product_info", WfRetrieverAnswers) :
             LET called == [runs[r] EXCEPT
                              !.tool_calls = Append(@, ToolCall("get_product_info", query, result))]
             IN  IF result.kind = "exception"
                 THEN NodeRaised(r, "Retriever", called)
                 ELSE LET context == IF Truthy(result.text) THEN result.text ELSE STR_No_data
                      IN  NodeDone(r, "Retriever", context, "Grader", called)
    /\ UNCHANGED <<mcp_tools, get_tools_calls, srv, client, etl, retr>>

\* _grade_documents, the routing predicate after Retriever
_grade_documents(r) ==
    /\ runs[r].pc = "Grader"
    /\ \E score \in LLMOutcomes :
         LET question == Messages(r)[1]
             docs == Last(Messages(r))
             called == [runs[r] EXCEPT !.llm_calls = Append(@, LLMCall("Grader", score)),
                                       !.grade_input = [docs |-> docs, question |-> question],
                                       !.graded = @ + 1]
         IN  IF score.kind = "exception"
             THEN PredicateRaised(r, called)
             ELSE runs' = [runs EXCEPT ![r] =
                             [called EXCEPT
                                !.score = score.text,
                                !.decision = grade(score.text),
                                !.pc = grade_target(grade(score.text))]]
    /\ UNCHANGED <<mcp_tools, get_tools_calls, checkpointer, srv, client, etl, retr>>

\* _rewrite
_rewrite(r) ==
    /\ runs[r].pc = "Rewriter"
    /\ \E new_q \in LLMOutcomes :
         LET question == Messages(r)[1]
             called == [runs[r] EXCEPT !.llm_calls = Append(@, LLMCall("Rewriter", new_q)),
                                       !.rewrite_input = question]
         IN  IF new_q.kind = "exception"
             THEN NodeRaised(r, "Rewriter", called)
             ELSE NodeDone(r, "Rewriter", strip(new_q.text), edge("Rewriter"), called)
    /\ UNCHANGED <<mcp_tools, get_tools_calls, srv, client, etl, retr>>

\* _web_search
_web_search(r) ==
    /\ runs[r].pc = "WebSearch"
    /\ LET query == Last(Messages(r))
       IN  \E result \in ToolInvoke("web_search",
                                    {web_search(o) : o \in WfSearchOutcomes}) :
             LET called == [runs[r] EXCEPT
                              !.tool_calls = Append(@, ToolCall("web_search", query, result))]
             IN  IF result.kind = "exception"
                 THEN NodeRaised(r, "WebSearch", called)
                 ELSE LET context == IF Truthy(result.text) THEN result.text
                                     ELSE STR_No_data_from_web
                      IN  NodeDone(r, "WebSearch", context, edge("WebSearch"), called)
    /\ UNCHANGED <<mcp_tools, get_tools_calls, srv, client, etl, retr>>

\* _generate
_generate(r) ==
    /\ runs[r].pc = "Generator"
    /\ LET question == Messages(r)[1]
           docs == Last(Messages(r))
       IN  \E response \in LLMOutcomes :
             LET called == [runs[r] EXCEPT
                              !.llm_calls = Append(@, LLMCall("Generator", response)),
                              !.gen_input = [context |-> docs, question |-> question]]
             IN  IF response.kind = "exception"
                 THEN NodeRaised(r, "Generator", called)
                 ELSE NodeDone(r, "Generator", response.text, edge("Generator"), called)
    /\ UNCHANGED <<mcp_tools, get_tools_calls, srv, client, etl, retr>>

\* END reached: return result["messages"][-1].content
run_return(r) ==
    /\ runs[r].pc = "END"
    /\ runs' = [runs EXCEPT ![r].pc = "returned",
                            ![r].result = Returned(final_answer(Messages(r)))]
    /\ UNCHANGED <<mcp_tools, get_tools_calls, checkpointer, srv, client, etl, retr>>

Next ==
    \/ \E query \in Queries : SequentialRun(query)
    \/ \E r \in RunIds : async_init(r)
    \/ \E r \in RunIds : ainvoke(r)
    \/ \E r \in RunIds : _ai_assistant(r)
    \/ \E r \in RunIds : _vector_retriever(r)
    \/ \E r \in RunIds : _grade_documents(r)
    \/ \E r \in RunIds : _rewrite(r)
    \/ \E r \in RunIds : _web_search(r)
    \/ \E r \in RunIds : _generate(r)
    \/ \E r \in RunIds : run_return(r)

Spec == Init /\ [][Next]_vars

(***************************************************************************)
(* The tool server on its own: calls of its two tools with every outcome   *)
(* of the retriever and of the search engine.                              *)
(***************************************************************************)
serve_get_product_info(query, outcome) ==
    /\ srv.n < MaxCalls
    /\ srv' = [n |-> srv.n + 1, tool |-> "get_product_info", query |-> query,
               outcome |-> outcome, result |-> get_product_info(outcome)]
    /\ UNCHANGED <<mcp_tools, get_tools_calls, checkpointer, runs, client, etl, retr>>

serve_web_search(query, outcome) ==
    /\ srv.n < MaxCalls
    /\ srv' = [n |-> srv.n + 1, tool |-> "web_search", query |-> query,
               outcome |-> outcome,
               result |-> web_search(outcome)]
    /\ UNCHANGED <<mcp_tools, get_tools_calls, checkpointer, runs, client, etl, retr>>

ServerNext ==
    \/ \E query \in Queries, outcome \in RetrieverOutcomes :
         serve_get_product_info(query, outcome)
    \/ \E query \in Queries, outcome \in SearchOutcomes :
         serve_web_search(query, outcome)

ServerSpec == Init /\ [][ServerNext]_vars

(***************************************************************************)
(* The workflow with the scheduling of the event loop: a run that can take *)
(* a step takes it (every awaited call returns or raises).                 *)
(***************************************************************************)
RunStep ==
    \E r \in RunIds :
       \/ async_init(r) \/ ainvoke(r) \/ _ai_assistant(r) \/ _vector_retriever(r)
       \/ _grade_documents(r) \/ _rewrite(r) \/ _web_search(r) \/ _generate(r)
       \/ run_return(r)

FairSpec == Spec /\ WF_vars(RunStep)

(***************************************************************************)
(* Runs started concurrently on one AgenticRAG instance: callers that each *)
(* pass a thread identifier of their own, not used before.  The event loop *)
(* interleaves the runs at their awaits.                                   *)
(***************************************************************************)
\* the callers: one asks about a price on the default thread, the other
\* sends a greeting on a thread of its own
Callers ==
    <<[query |-> Q_Price, thread |-> "default_thread"],
      [query |-> Q_hi, thread |-> "t2"]>>

\* caller c calls run(query, thread_id); its call is run c of the instance
ConcurrentRun(c) ==
    /\ c \in RunIds
    /\ runs[c].pc = "idle"
    /\ checkpointer[Callers[c].thread] = <<>>
    /\ Run(c, Callers[c].query, Callers[c].thread)

ConcNext ==
    \/ \E c \in DOMAIN Callers : ConcurrentRun(c)
    \/ RunStep

ConcSpec == Init /\ [][ConcNext]_vars

(***************************************************************************)
(* The client of the tool server: main of mcp_servers/client.py.           *)
(***************************************************************************)
\* "Timeout error", the text main stores when the retriever call times out
STR_Timeout_error == <<"T", "i", "m", "e", "o", "u", "t", " ", "e", "r", "r", "o", "r">>

\* the values the source gives to `query` (two of them commented out)
ClientQueries ==
    {<<"D", "e", "l", "l", " ", "L", "a", "p", "t", "o", "p", "?">>,
     <<"i", "P", "h", "o", "n", "e", " ", "1", "5">>,
     <<"S", "a", "m", "s", "u", "n", "g", " ", "G", "a", "l", "a", "x", "y", " ", "S",
       "2", "5", " ", "p", "r", "i", "c", "e">>}

\* asyncio.wait_for gave up on the call
TimedOut == [kind |-> "timeout", text |-> <<>>]

\* empty and blank texts a tool invocation may hand to the client
BlankTexts == {<<>>, <<" ">>, <<"\n", " ">>}

\* what `await asyncio.wait_for(retriever_tool.ainvoke(...), timeout=30.0)`
\* may do: the text of the server's get_product_info, an empty or blank
\* text, a timeout, or another exception
ClientRetrieverAnswers ==
    {get_product_info(o) : o \in RetrieverOutcomes}
      \cup {Returned(b) : b \in BlankTexts}
      \cup {TimedOut, Raised(<<>>)}

\* what `await web_tool.ainvoke(...)` may do
ClientWebAnswers == {web_search(o) : o \in SearchOutcomes} \cup {Raised(<<>>)}

\* the fallback test with its second disjunct left out
fallback_blank_only(retriever_result) == ~Truthy(strip(retriever_result))

\* not retriever_result.strip() or "No local results found." in retriever_result
fallback(retriever_result) ==
    \/ ~Truthy(strip(retriever_result))
    \/ Contains(retriever_result, STR_No_local_results)

\* main up to the first tool call: the tools are discovered and picked by
\* name; an exception of get_tools() or of next() ends main in its handler
main_discover ==
    /\ client.pc = "start"
    /\ \/ client' = [client EXCEPT !.pc = "retriever"]
       \/ client' = [client EXCEPT !.pc = "failed"]
    /\ UNCHANGED <<mcp_tools, get_tools_calls, checkpointer, runs, srv, etl, retr>>

\* Step 1: the retriever call under its 30 s timeout, then the test that
\* decides on the fallback
main_retriever(query, answer) ==
    /\ client.pc = "retriever"
    /\ LET called == [client EXCEPT
                        !.query = query,
                        !.retriever_answer = answer,
                        !.invoked = Append(@, [tool |-> "get_product_info", query |-> query])]
       IN  IF answer.kind = "exception"
           THEN client' = [called EXCEPT !.pc = "failed"]
           ELSE LET retriever_result ==
                      IF answer.kind = "timeout" THEN STR_Timeout_error ELSE answer.text
                IN  client' = [called EXCEPT
                                 !.retriever_result = retriever_result,
                                 !.printed =
                                    IF answer.kind = "timeout" THEN @
                                    ELSE Append(@, [label |-> "Retriever Result",
                                                    text |-> retriever_result]),
                                 !.pc = IF fallback(retriever_result) THEN "web" ELSE "done"]
    /\ UNCHANGED <<mcp_tools, get_tools_calls, checkpointer, runs, srv, etl, retr>>

\* Step 2: the web search of the fallback
main_web(answer) ==
    /\ client.pc = "web"
    /\ LET called == [client EXCEPT
                        !.web_answer = answer,
                        !.invoked = Append(@, [tool |-> "web_search", query |-> client.query])]
       IN  IF answer.kind = "exception"
           THEN client' = [called EXCEPT !.pc = "failed"]
           ELSE client' = [called EXCEPT
                             !.web_result = answer.text,
                             !.printed = Append(@, [label |-> "Web Search Result",
                                                    text |-> answer.text]),
                             !.pc = "done"]
    /\ UNCHANGED <<mcp_tools, get_tools_calls, checkpointer, runs, srv, etl, retr>>

ClientNext ==
    \/ main_discover
    \/ \E query \in ClientQueries, answer \in ClientRetrieverAnswers :
         main_retriever(query, answer)
    \/ \E answer \in ClientWebAnswers : main_web(answer)

ClientSpec == Init /\ [][ClientNext]_vars

(***************************************************************************)
(* ETL: EcommerceScraper.save_to_csv (etl/data_scrapper.py) and            *)
(* DataIngestion (etl/data_ingestion.py).  The file is the text that       *)
(* csv.writer produces; pandas.read_csv splits it into fields again and    *)
(* converts each column.                                                   *)
(***************************************************************************)
\* largest number of product rows passed to save_to_csv
MaxRows == 2

COL_product_id == <<"p", "r", "o", "d", "u", "c", "t", "_", "i", "d">>
COL_product_title == <<"p", "r", "o", "d", "u", "c", "t", "_", "t", "i", "t", "l", "e">>
COL_rating == <<"r", "a", "t", "i", "n", "g">>
COL_total_reviews == <<"t", "o", "t", "a", "l", "_", "r", "e", "v", "i", "e", "w", "s">>
COL_price == <<"p", "r", "i", "c", "e">>
COL_top_reviews == <<"t", "o", "p", "_", "r", "e", "v", "i", "e", "w", "s">>

\* the header row save_to_csv writes
CSV_HEADER == <<COL_product_id, COL_product_title, COL_rating, COL_total_reviews,
                COL_price, COL_top_reviews>>

\* expected_columns of _load_csv
expected_columns == {COL_product_id, COL_product_title, COL_rating, COL_total_reviews,
                     COL_price, COL_top_reviews}

RECURSIVE Flatten(_)
Flatten(parts) == IF parts = <<>> THEN <<>> ELSE Head(parts) \o Flatten(Tail(parts))

\* csv.writer, QUOTE_MINIMAL: a field holding the delimiter, the quote
\* character or a line break is quoted, its quote characters doubled
NeedsQuote(field) == \E i \in DOMAIN field : field[i] \in {",", "\"", "\n", "\r"}

csv_field(field) ==
    IF NeedsQuote(field)
    THEN <<"\"">>
           \o Flatten([i \in DOMAIN field |->
                          IF field[i] = "\"" THEN <<"\"", "\"">> ELSE <<field[i]>>])
           \o <<"\"">>
    ELSE field

\* writer.writerow(row): the fields separated by commas, then "\r\n"
writerow(row) ==
    Flatten([i \in DOMAIN row |->
               IF i = 1 THEN csv_field(row[i]) ELSE <<",">> \o csv_field(row[i])])
      \o <<"\r", "\n">>

\* the text of a file with the given header row and data rows
csv_text(header, rows) ==
    writerow(header) \o Flatten([i \in DOMAIN rows |-> writerow(rows[i])])

\* the element of a one-element set
The(S) == CHOOSE x \in S : TRUE

\* the k-th smallest element of a set of positions
Kth(S, k) == CHOOSE x \in S : Cardinality({y \in S : y < x}) = k - 1

\* the elements of a set of positions in increasing order
Sorted(S) == [k \in 1..Cardinality(S) |-> Kth(S, k)]

\* the tokenizer of pandas.read_csv.  A position is outside a quoted field
\* when an even number of quote characters precedes it
Outside(text, i) == Cardinality({j \in 1..(i - 1) : text[j] = "\""}) % 2 = 0

\* the parts of a text around the positions cuts[1] < cuts[2] < ...
SplitAt(text, cuts) ==
    [k \in 1..(Len(cuts) + 1) |->
       SubSeq(text, IF k = 1 THEN 1 ELSE cuts[k - 1] + 1,
                    IF k > Len(cuts) THEN Len(text) ELSE cuts[k] - 1)]

\* the parts of a text between the separator characters outside quotes
SplitOutside(text, separator) ==
    The({SplitAt(text, cuts) :
           cuts \in {Sorted(S) :
                       S \in {{i \in DOMAIN text :
                                 text[i] = separator /\ Outside(text, i)}}}})

\* the characters of a quoted field's inside, doubled quote characters
\* halved
Halved(inner) ==
    The({[k \in DOMAIN keep |-> inner[keep[k]]] :
           keep \in {Sorted(S) :
                       S \in {{j \in DOMAIN inner :
                                 inner[j] # "\"" \/ Outside(inner, j)}}}})

\* a field without its quotes
Unquote(field) ==
    IF field # <<>> /\ Head(field) = "\""
    THEN The({Halved(inner) : inner \in {SubSeq(field, 2, Len(field) - 1)}})
    ELSE field

\* a line without the "\r" of its terminator
DropCR(line) ==
    IF line # <<>> /\ Last(line) = "\r" THEN SubSeq(line, 1, Len(line) - 1) ELSE line

\* the lines of the text: "\n" outside quotes ends a row, a "\r" before it
\* belongs to the terminator; the text after the last terminator is a row
\* only when it is not empty
Lines(text) ==
    The({[k \in 1..(IF Last(parts) = <<>> THEN Len(parts) - 1 ELSE Len(parts)) |->
            DropCR(parts[k])] :
           parts \in {SplitOutside(text, "\n")}})

\* the fields of one line
Fields(line) ==
    The({[j \in DOMAIN fields |-> Unquote(fields[j])] :
           fields \in {SplitOutside(line, ",")}})

\* the text split into rows of fields
Tokenize(text) ==
    The({[k \in DOMAIN lines |-> Fields(lines[k])] : lines \in {Lines(text)}})

\* the values of a DataFrame cell: a str, an int, a float (sign, whole part
\* and decimals without trailing zeros) or NaN
StrValue(text) == [t |-> "str", s |-> text, neg |-> FALSE, n |-> 0, frac |-> <<>>]
IntValue(neg, n) == [t |-> "int", s |-> <<>>, neg |-> neg /\ n # 0, n |-> n, frac |-> <<>>]
FloatValue(neg, n, frac) == [t |-> "float", s |-> <<>>, neg |-> neg, n |-> n, frac |-> frac]
NaN == [t |-> "nan", s |-> <<>>, neg |-> FALSE, n |-> 0, frac |-> <<>>]

\* texts read_csv takes for a missing value (its default na_values); the
\* model keeps those a scraped row may hold
NA_VALUES == {<<>>, <<"N", "/", "A">>, <<"N", "A">>, <<"n", "/", "a">>,
              <<"n", "a", "n">>, <<"N", "a", "N">>, <<"n", "u", "l", "l">>,
              <<"N", "U", "L", "L">>, <<"N", "o", "n", "e">>}

Digits == <<"0", "1", "2", "3", "4", "5", "6", "7", "8", "9">>
IsDigit(c) == \E d \in DOMAIN Digits : Digits[d] = c
DigitValue(c) == (CHOOSE d \in DOMAIN Digits : Digits[d] = c) - 1
AllDigits(text) == \A i \in DOMAIN text : IsDigit(text[i])

\* the number a run of digits stands for
RECURSIVE Magnitude(_)
Magnitude(digits) ==
    IF digits = <<>> THEN 0
    ELSE 10 * Magnitude(SubSeq(digits, 1, Len(digits) - 1)) + DigitValue(Last(digits))

\* a text without its sign
Unsigned(text) == IF text # <<>> /\ Head(text) \in {"-", "+"} THEN Tail(text) ELSE text
IsNegative(text) == text # <<>> /\ Head(text) = "-"

\* the text is an integer literal: an optional sign and digits
LooksInt(text) == Unsigned(text) # <<>> /\ AllDigits(Unsigned(text))

\* position of the decimal point of an unsigned text, 0 if it has none
PointAt(text) ==
    IF \E i \in DOMAIN text : text[i] = "."
    THEN CHOOSE i \in DOMAIN text : text[i] = "." /\ \A j \in 1..(i - 1) : text[j] # "."
    ELSE 0

\* the text is a decimal literal: digits around one point, at least one digit
LooksDecimal(text) ==
    LET u == Unsigned(text)
        p == PointAt(u)
    IN  /\ p > 0
        /\ Len(u) > 1
        /\ AllDigits(SubSeq(u, 1, p - 1))
        /\ AllDigits(SubSeq(u, p + 1, Len(u)))

\* decimals without their trailing zeros
RECURSIVE TrimZeros(_)
TrimZeros(digits) ==
    IF digits # <<>> /\ Last(digits) = "0"
    THEN TrimZeros(SubSeq(digits, 1, Len(digits) - 1))
    ELSE digits

\* the float a numeric text converts to
ToFloat(text) ==
    LET u == Unsigned(text)
        p == PointAt(u)
    IN  IF p = 0
        THEN FloatValue(IsNegative(text), Magnitude(u), <<>>)
        ELSE FloatValue(IsNegative(text), Magnitude(SubSeq(u, 1, p - 1)),
                        TrimZeros(SubSeq(u, p + 1, Len(u))))

\* the conversion read_csv applies to one column: missing values become
\* NaN; the column is int64 when every cell is an integer literal, float64
\* when every cell is numeric or missing, and keeps its texts otherwise
convert_column(cells) ==
    The({IF present # {} /\ present = DOMAIN cells /\ \A i \in present : LooksInt(cells[i])
         THEN [i \in DOMAIN cells |->
                 IntValue(IsNegative(cells[i]), Magnitude(Unsigned(cells[i])))]
         ELSE IF \A i \in present : LooksInt(cells[i]) \/ LooksDecimal(cells[i])
         THEN [i \in DOMAIN cells |-> IF i \in present THEN ToFloat(cells[i]) ELSE NaN]
         ELSE [i \in DOMAIN cells |-> IF i \in present THEN StrValue(cells[i]) ELSE NaN] :
           present \in {{i \in DOMAIN cells : cells[i] \notin NA_VALUES}}})

\* the DataFrame of tokenized rows: the first row names the columns, every
\* column of the rows below it is converted
Frame(rows) ==
    IF rows = <<>>
    THEN [columns |-> <<>>, data |-> <<>>]
    ELSE The({[columns |-> Head(rows),
               data |-> [i \in 1..(Len(rows) - 1) |->
                           [j \in DOMAIN converted |-> converted[j][i]]]] :
                converted \in {[j \in DOMAIN Head(rows) |->
                                  convert_column([i \in 1..(Len(rows) - 1) |->
                                                    rows[i + 1][j]])]}})

\* pd.read_csv(path)
read_csv(text) == The({Frame(rows) : rows \in {Tokenize(text)}})

\* row[name] of a DataFrame row
Cell(df, i, name) ==
    df.data[i][CHOOSE j \in DOMAIN df.columns : df.columns[j] = name]

\* the Document transform_data builds for row i
RowDocument(df, i) ==
    [page_content |-> Cell(df, i, COL_top_reviews),
     metadata |-> [product_id |-> Cell(df, i, COL_product_id),
                   product_title |-> Cell(df, i, COL_product_title),
                   rating |-> Cell(df, i, COL_rating),
                   total_reviews |-> Cell(df, i, COL_total_reviews),
                   price |-> Cell(df, i, COL_price)]]

\* product rows as search_products builds them: id, title, rating,
\* total_reviews, price, top_reviews, each a str
ROW_plain ==
    <<<<"B", "0", "C">>, <<"D", "e", "l", "l">>, <<"4", ".", "5">>, <<"1", "2">>,
      <<"9", "9", "0">>, <<"g", "o", "o", "d", " ", "|", "|", " ", "f", "i", "n", "e">>>>
ROW_placeholders ==
    <<<<"N", "/", "A">>, <<"H", "P">>, <<"N", "/", "A">>, <<"N", "/", "A">>,
      <<"5", " ", "K", "c">>,
      <<"N", "o", " ", "r", "e", "v", "i", "e", "w", "s", " ", "f", "o", "u", "n", "d">>>>
ROW_quoted ==
    <<<<"i", "t", "m", "7">>, <<"A", ",", " ", "\"", "B", "\"">>, <<"4", ",", "6">>,
      <<"1", ",", "2", "3", "4">>, <<"6", "4", ",", "9", "0", "0">>,
      <<"o", "k", "\n", "R", "E", "A", "D">>>>
ROW_text ==
    <<<<"x", "1">>, <<"L", "G">>, <<"4", " ", "o", "f", " ", "5">>, <<"7">>,
      <<"1", "0", ".", "5", "0">>, <<"f", "a", "s", "t">>>>
ProductRows == {ROW_plain, ROW_placeholders, ROW_quoted, ROW_text}

\* header rows of CSV files that did not come from save_to_csv: one of the
\* six columns missing, the six columns in another order, a seventh column
ForeignHeaders ==
    {<<COL_product_title, COL_rating, COL_total_reviews, COL_price, COL_top_reviews>>,
     <<COL_product_id, COL_product_title, COL_total_reviews, COL_price, COL_top_reviews>>,
     <<COL_product_id, COL_product_title, COL_rating, COL_total_reviews, COL_price>>,
     <<COL_product_id, COL_product_title, COL_rating, COL_price, COL_top_reviews>>,
     <<COL_top_reviews>>,
     <<COL_top_reviews, COL_price, COL_total_reviews, COL_rating, COL_product_title,
       COL_product_id>>,
     <<COL_product_id, COL_product_title, COL_rating, COL_total_reviews, COL_price,
       COL_top_reviews, <<"u", "r", "l">>>>}

\* data rows under a foreign header
ForeignRows(h) ==
    {<<>>, <<[j \in DOMAIN h |-> <<"v">>]>>,
     <<[j \in DOMAIN h |-> <<"v">>], [j \in DOMAIN h |-> <<"7">>]>>}

\* the files DataIngestion may find at csv_path when the scraper wrote none
ForeignFiles ==
    UNION {{File(csv_text(h, rows)) : rows \in ForeignRows(h)} : h \in ForeignHeaders}

\* save_to_csv(data): the header row, then one row per product
save_to_csv(data) ==
    /\ etl.obj = "none"
    /\ etl' = [etl EXCEPT !.file = File(csv_text(CSV_HEADER, data)),
                          !.written = data]
    /\ UNCHANGED <<mcp_tools, get_tools_calls, checkpointer, runs, srv, client, retr>>

\* _load_csv without its test of the columns
_load_csv_unchecked(file) == [raises |-> FALSE, df |-> read_csv(file.text)]

\* _load_csv on the file found at csv_path: the DataFrame, or ValueError
\* when a column of expected_columns is missing
_load_csv(file) ==
    The({IF ~(expected_columns \subseteq Range(df.columns))
         THEN [raises |-> TRUE, df |-> NoFrame]
         ELSE [raises |-> FALSE, df |-> df] :
           df \in {read_csv(file.text)}})

\* DataIngestion(): _load_env_variables, _get_csv_path, _load_csv,
\* load_config.  env_ok tells whether the environment variables are set;
\* found is the file at csv_path
DataIngestion_init(env_ok, found) ==
    /\ etl.obj = "none"
    /\ found \in (IF etl.file.exists THEN {etl.file} ELSE ForeignFiles \cup {NoFile})
    /\ IF ~env_ok
       THEN etl' = [etl EXCEPT !.obj = "raised", !.error = "EnvironmentError"]
       ELSE IF ~found.exists
       THEN etl' = [etl EXCEPT !.obj = "raised", !.error = "FileNotFoundError"]
       ELSE \E loaded \in {_load_csv(found)} :
              etl' = IF loaded.raises
                     THEN [etl EXCEPT !.obj = "raised", !.error = "ValueError",
                                      !.read = found]
                     ELSE [etl EXCEPT !.obj = "constructed", !.read = found,
                                      !.product_data = loaded.df]
    /\ UNCHANGED <<mcp_tools, get_tools_calls, checkpointer, runs, srv, client, retr>>

\* transform_data(): one Document per row of self.product_data; Document
\* refuses a page_content that is not a str
transform_data ==
    /\ etl.obj = "constructed"
    /\ ~etl.transformed
    /\ etl.error = "none"
    /\ LET df == etl.product_data
           documents == [i \in DOMAIN df.data |-> RowDocument(df, i)]
       IN  IF \E i \in DOMAIN documents : documents[i].page_content.t # "str"
           THEN etl' = [etl EXCEPT !.error = "ValidationError"]
           ELSE etl' = [etl EXCEPT !.transformed = TRUE, !.documents = documents]
    /\ UNCHANGED <<mcp_tools, get_tools_calls, checkpointer, runs, srv, client, retr>>

\* store_in_vector_db(documents): vstore.add_documents(documents)
store_in_vector_db ==
    /\ etl.transformed
    /\ etl.stored = <<>>
    /\ etl' = [etl EXCEPT !.stored = etl.documents]
    /\ UNCHANGED <<mcp_tools, get_tools_calls, checkpointer, runs, srv, client, retr>>

EtlNext ==
    \/ \E data \in SeqsUpTo(ProductRows, MaxRows) : save_to_csv(data)
    \/ \E env_ok \in BOOLEAN, found \in ForeignFiles \cup {NoFile, etl.file} :
         DataIngestion_init(env_ok, found)
    \/ transform_data
    \/ store_in_vector_db

EtlSpec == Init /\ [][EtlNext]_vars

(***************************************************************************)
(* Retriever (retriever/retrieval.py).                                     *)
(***************************************************************************)
\* largest retriever.top_k a configuration sets
MaxTopK == 2

\* the configurations load_config() may return: no 'retriever' section, a
\* section without 'top_k', a section with top_k
Configs ==
    {[has_retriever |-> FALSE, has_top_k |-> FALSE, top_k |-> 0],
     [has_retriever |-> TRUE, has_top_k |-> FALSE, top_k |-> 0]}
      \cup {[has_retriever |-> TRUE, has_top_k |-> TRUE, top_k |-> k] : k \in 1..MaxTopK}

\* the ranked documents of the vector store that pass the score threshold
\* and the LLM filter, for one query
Candidates == SeqsUpTo(Docs, MaxDocs + 2)

\* self.config["retriever"]["top_k"] if "retriever" in self.config else 3:
\* the value, or KeyError when the section has no 'top_k'
top_k(config) ==
    IF config.has_retriever
    THEN IF config.has_top_k
         THEN [raises |-> FALSE, k |-> config.top_k]
         ELSE [raises |-> TRUE, k |-> 0]
    ELSE [raises |-> FALSE, k |-> 3]

\* Retriever(): load_config() and the environment variables
Retriever_init(config) ==
    /\ ~retr.built
    /\ retr' = [retr EXCEPT !.built = TRUE, !.config = config]
    /\ UNCHANGED <<mcp_tools, get_tools_calls, checkpointer, runs, srv, client, etl>>

\* the state load_retriever() leaves: the vector store is set first, then
\* the retriever is built with k = top_k unless one exists already
loaded(r) ==
    LET k == top_k(r.config)
    IN  IF ~r.retriever_instance.is_none
        THEN [r EXCEPT !.vstore = TRUE, !.error = "none"]
        ELSE IF k.raises
        THEN [r EXCEPT !.vstore = TRUE, !.error = "KeyError"]
        ELSE [r EXCEPT !.vstore = TRUE, !.error = "none",
                       !.retriever_instance = Instance(k.k)]

\* load_retriever()
load_retriever ==
    /\ retr.built
    /\ retr' = loaded(retr)
    /\ UNCHANGED <<mcp_tools, get_tools_calls, checkpointer, runs, srv, client, etl>>

\* the MMR search: the k best of the candidates
mmr(candidates, k) ==
    SubSeq(candidates, 1, IF Len(candidates) < k THEN Len(candidates) ELSE k)

\* call_retriever(query): load_retriever(), then retriever.invoke(query)
call_retriever(query, candidates) ==
    /\ retr.built
    /\ LET r == loaded(retr)
       IN  retr' = IF r.error # "none"
                   THEN r
                   ELSE [r EXCEPT !.query = query,
                                  !.output = mmr(candidates, r.retriever_instance.k)]
    /\ UNCHANGED <<mcp_tools, get_tools_calls, checkpointer, runs, srv, client, etl>>

RetrieverNext ==
    \/ \E config \in Configs : Retriever_init(config)
    \/ load_retriever
    \/ \E query \in Queries, candidates \in Candidates : call_retriever(query, candidates)

RetrieverSpec == Init /\ [][RetrieverNext]_vars

(***************************************************************************)
(* Properties.                                                             *)
(***************************************************************************)
IsPrefix(p, q) == Len(p) <= Len(q) /\ SubSeq(q, 1, Len(p)) = p

NoDuplicates(q) == \A i, j \in DOMAIN q : q[i] = q[j] => i = j

\* the text contains one of the three domain keywords, in any case
MentionsDomain(text) ==
    \/ Contains(lower(text), <<"p", "r", "i", "c", "e">>)
    \/ Contains(lower(text), <<"r", "e", "v", "i", "e", "w">>)
    \/ Contains(lower(text), <<"p", "r", "o", "d", "u", "c", "t">>)

\* the graph of run r reached END
AtEnd(r) == runs[r].pc \in {"END", "returned"}

\* C1: a run whose query contains 'price', 'review' or 'product' (in any
\* case) has Assistant append the routing sentinel without calling the
\* generation capability, its next node is Retriever, and it never ends
\* right after Assistant.
C1_KeywordQueryRoutesToRetriever ==
    \A r \in RunIds :
       (MentionsDomain(runs[r].query) /\ Len(runs[r].visited) >= 1) =>
          /\ runs[r].visited[1] = "Assistant"
          /\ runs[r].outs # <<>> /\ runs[r].outs[1] = STR_TOOL_retriever
          /\ \A i \in DOMAIN runs[r].llm_calls : runs[r].llm_calls[i].by # "Assistant"
          /\ Len(runs[r].visited) = 1 => runs[r].pc = "Retriever"
          /\ Len(runs[r].visited) >= 2 => runs[r].visited[2] = "Retriever"
          /\ AtEnd(r) => Len(runs[r].visited) >= 2

C1_Witness ==
    \E r \in RunIds :
       /\ MentionsDomain(runs[r].query)
       /\ Len(runs[r].visited) >= 2
       /\ runs[r].visited[2] = "Retriever"
       /\ runs[r].outs[1] = STR_TOOL_retriever

\* C2: a run whose query contains none of the keywords ends right after
\* Assistant, whatever the generation capability answers: Retriever and
\* WebSearch do not execute and no tool is invoked.
C2_NoKeywordEndsAfterAssistant ==
    \A r \in RunIds :
       (~MentionsDomain(runs[r].query) /\ Len(runs[r].visited) >= 1) =>
          /\ runs[r].visited = <<"Assistant">>
          /\ runs[r].tool_calls = <<>>
          /\ runs[r].pc \in {"END", "returned", "raised"}

\* C3: once the Grader decided 'rewriter', the run executes Rewriter, then
\* WebSearch, then Generator before END, and the Grader is not evaluated
\* again.
C3_RewritePathInOrder ==
    \A r \in RunIds :
       runs[r].decision = "rewriter" =>
          LET after == SubSeq(runs[r].visited, 3, Len(runs[r].visited))
              path == <<"Rewriter", "WebSearch", "Generator">>
          IN  /\ SubSeq(runs[r].visited, 1, 2) = <<"Assistant", "Retriever">>
              /\ IsPrefix(after, path)
              /\ AtEnd(r) => after = path
              /\ runs[r].graded = 1
              /\ runs[r].pc # "Grader"

C3_Witness ==
    \E r \in RunIds :
       /\ runs[r].decision = "rewriter"
       /\ runs[r].pc = "returned"
       /\ runs[r].visited =
            <<"Assistant", "Retriever", "Rewriter", "WebSearch", "Generator">>

\* a call of the generation capability or of a tool failed in run r
Faulted(r) ==
    \/ \E i \in DOMAIN runs[r].llm_calls : ~runs[r].llm_calls[i].ok
    \/ \E i \in DOMAIN runs[r].tool_calls : ~runs[r].tool_calls[i].ok

InGraph(r) ==
    runs[r].pc \in {"Assistant", "Retriever", "Grader", "Rewriter", "WebSearch", "Generator"}

\* C4: a run executes each node at most once and evaluates the Grader at
\* most once, so at most five nodes, and a run in which nothing raises
\* reaches END: a run leaves the graph only at END or by a failed call, and
\* whenever a run is inside the graph, the graph is left later on.
C4_RunIsBounded ==
    /\ [](\A r \in RunIds :
            /\ Len(runs[r].visited) <= 5
            /\ NoDuplicates(runs[r].visited)
            /\ runs[r].graded <= 1
            /\ (runs[r].visited # <<>> /\ ~InGraph(r)) => (AtEnd(r) \/ Faulted(r)))
    /\ (\E r \in RunIds : InGraph(r)) ~> (\A r \in RunIds : ~InGraph(r))

C4_Witness ==
    \E r \in RunIds : runs[r].pc = "returned" /\ Len(runs[r].visited) = 5

\* C5: when a generation call or a tool invocation fails inside a node or
\* the Grader, run raises to its caller: it returns no answer, the failing
\* node writes no message and no later node of the run executes.
C5_FaultReachesCaller ==
    /\ [](\A r \in RunIds :
            /\ Faulted(r) =>
                 /\ runs[r].pc = "raised"
                 /\ runs[r].result.kind = "exception"
                 /\ Len(Messages(r)) = runs[r].base + 1 + Len(runs[r].outs)
                 /\ Len(runs[r].visited) - Len(runs[r].outs)
                      = (IF runs[r].graded = 1 /\ runs[r].decision = "none" THEN 0 ELSE 1)
            /\ runs[r].result.kind = "str" => (runs[r].pc = "returned" /\ ~Faulted(r)))
    /\ [][\A r \in RunIds :
            runs[r].pc = "raised" => (runs'[r] = runs[r] \/ runs'[r].visited = <<>>)]_vars

C5_Witness ==
    \E r \in RunIds :
       /\ Faulted(r)
       /\ runs[r].pc = "raised"
       /\ runs[r].visited = <<"Assistant", "Retriever", "Rewriter", "WebSearch">>

\* the run has a conversation state: ainvoke took its input
HasState(r) == runs[r].pc = "Assistant" \/ runs[r].visited # <<>>

\* C6: in every state of a run's conversation the first message is the
\* query of that run, and after each node completes the last message is the
\* content that node produced.
C6_FirstIsQueryLastIsNewest ==
    \A r \in RunIds :
       HasState(r) =>
          /\ Messages(r)[1] = runs[r].query
          /\ runs[r].outs # <<>> => Last(Messages(r)) = Last(runs[r].outs)

\* C7: a run whose query contains 'price' and whose Grader answer contains
\* 'yes' executes exactly Assistant, Retriever, Generator, in that order,
\* and Generator's context is the message Retriever appended.
C7_RelevantPathHasThreeNodes ==
    \A r \in RunIds :
       (/\ Contains(lower(runs[r].query), <<"p", "r", "i", "c", "e">>)
        /\ runs[r].graded = 1
        /\ Contains(lower(runs[r].score), <<"y", "e", "s">>)) =>
          /\ IsPrefix(runs[r].visited, <<"Assistant", "Retriever", "Generator">>)
          /\ AtEnd(r) => runs[r].visited = <<"Assistant", "Retriever", "Generator">>
          /\ Len(runs[r].visited) = 3 => runs[r].gen_input.context = runs[r].outs[2]
          /\ runs[r].pc \notin {"Rewriter", "WebSearch"}

C7_Witness ==
    \E r \in RunIds :
       /\ Contains(lower(runs[r].query), <<"p", "r", "i", "c", "e">>)
       /\ Contains(lower(runs[r].score), <<"y", "e", "s">>)
       /\ runs[r].pc = "returned"
       /\ runs[r].visited = <<"Assistant", "Retriever", "Generator">>
       /\ runs[r].gen_input.context = runs[r].outs[2]

\* C8: END is reached only from Assistant or from Generator, and run
\* returns the last message: Generator's output when Retriever was
\* visited, Assistant's direct answer otherwise, never the sentinel, a
\* retrieved context, a web result or a rewritten query.
C8_ReturnsAnswerOfLastNode ==
    \A r \in RunIds :
       AtEnd(r) =>
          /\ Last(runs[r].visited) \in {"Assistant", "Generator"}
          /\ Len(runs[r].outs) = Len(runs[r].visited)
          /\ runs[r].pc = "returned" => runs[r].result = Returned(Last(runs[r].outs))
          /\ IF "Retriever" \in Range(runs[r].visited)
             THEN /\ Last(runs[r].visited) = "Generator"
                  /\ Last(runs[r].llm_calls).by = "Generator"
             ELSE /\ runs[r].visited = <<"Assistant">>
                  /\ runs[r].llm_calls = <<[by |-> "Assistant", ok |-> TRUE]>>

C8_Witness ==
    \E r \in RunIds :
       /\ runs[r].pc = "returned"
       /\ "Retriever" \in Range(runs[r].visited)
       /\ runs[r].result = Returned(Last(runs[r].outs))
       /\ runs[r].base > 0

\* the error prefix of each tool
ErrorPrefix(tool) ==
    IF tool = "get_product_info"
    THEN <<"E", "r", "r", "o", "r", " ", "r", "e", "t", "r", "i", "e", "v", "i", "n",
           "g", " ", "p", "r", "o", "d", "u", "c", "t", " ", "i", "n", "f", "o", ":", " ">>
    ELSE <<"E", "r", "r", "o", "r", " ", "d", "u", "r", "i", "n", "g", " ", "w", "e",
           "b", " ", "s", "e", "a", "r", "c", "h", ":", " ">>

\* C9: get_product_info and web_search return a string on every call; when
\* the retriever, the formatter or the search engine raises, the result is
\* the tool's error prefix followed by the text of the exception.
C9_ToolsReturnStrings ==
    srv.n > 0 =>
       /\ srv.result.kind = "str"
       /\ srv.outcome.raises => srv.result.text = ErrorPrefix(srv.tool) \o srv.outcome.msg

C9_Witness ==
    /\ srv.n = MaxCalls
    /\ srv.tool = "web_search"
    /\ srv.outcome.raises
    /\ srv.result = Returned(ErrorPrefix("web_search") \o <<"d", "b">>)

\* the block expected for one document: its title, price and rating (N/A
\* for a missing one) and its review text without surrounding blanks
ExpectedField(d, key) ==
    IF key \in DOMAIN d.metadata THEN d.metadata[key] ELSE <<"N", "/", "A">>

ExpectedBlock(d) ==
    <<"T", "i", "t", "l", "e", ":", " ">> \o ExpectedField(d, "product_title")
      \o <<"\n", "P", "r", "i", "c", "e", ":", " ">> \o ExpectedField(d, "price")
      \o <<"\n", "R", "a", "t", "i", "n", "g", ":", " ">> \o ExpectedField(d, "rating")
      \o <<"\n", "R", "e", "v", "i", "e", "w", "s", ":", "\n">> \o strip(d.page_content)

\* where the k-th block starts in a context of blocks 7 characters apart
RECURSIVE BlockOffset(_, _)
BlockOffset(docs, k) ==
    IF k = 1 THEN 0
    ELSE BlockOffset(docs, k - 1) + Len(ExpectedBlock(docs[k - 1])) + 7

\* the text holds one block per document, in the order of the documents
HoldsBlocksInOrder(text, docs) ==
    /\ Len(text) = BlockOffset(docs, Len(docs)) + Len(ExpectedBlock(docs[Len(docs)]))
    /\ \A k \in DOMAIN docs :
          SubSeq(text, BlockOffset(docs, k) + 1,
                 BlockOffset(docs, k) + Len(ExpectedBlock(docs[k]))) = ExpectedBlock(docs[k])

\* C10: when retrieval does not raise, get_product_info returns exactly
\* 'No local results found.' if and only if the retriever found no
\* document; otherwise it returns one Title/Price/Rating/Reviews block per
\* retrieved document, in retrieval order.
C10_SentinelIffNothingFound ==
    (srv.tool = "get_product_info" /\ ~srv.outcome.raises) =>
       /\ srv.result.kind = "str"
       /\ (srv.result.text = <<"N", "o", " ", "l", "o", "c", "a", "l", " ", "r", "e",
                               "s", "u", "l", "t", "s", " ", "f", "o", "u", "n", "d", ".">>)
            <=> (srv.outcome.docs = <<>>)
       /\ srv.outcome.docs # <<>> => HoldsBlocksInOrder(srv.result.text, srv.outcome.docs)

C10_Witness ==
    /\ srv.tool = "get_product_info"
    /\ ~srv.outcome.raises
    /\ srv.outcome.docs = <<DOC_blank, DOC_full>>
    /\ srv.result.kind = "str"
    /\ Len(srv.result.text) > 23

\* the text is empty or made of blanks only
IsBlank(text) == \A i \in DOMAIN text : text[i] \in {" ", "\n", "\t"}

\* the text contains 'No local results found.'
HasSentinel(text) ==
    Contains(text, <<"N", "o", " ", "l", "o", "c", "a", "l", " ", "r", "e", "s", "u",
                     "l", "t", "s", " ", "f", "o", "u", "n", "d", ".">>)

\* main of the client ran to its end, normally or through its handler
ClientEnded == client.pc \in {"done", "failed"}

\* C11: when the get_product_info invocation of the client returns an
\* empty or blank text, or a text containing 'No local results found.',
\* the client invokes web_search exactly once, after the retriever call
\* and with the same query, and the last thing it reports is the text that
\* web_search returned, not the retriever's text.
C11_EmptyResultFallsBackToWeb ==
    (/\ client.retriever_answer.kind = "str"
     /\ IsBlank(client.retriever_answer.text) \/ HasSentinel(client.retriever_answer.text)) =>
       /\ client.pc # "done" =>
             client.pc = IF client.web_answer = NoResult THEN "web" ELSE "failed"
       /\ client.pc = "web" =>
             client.invoked = <<[tool |-> "get_product_info", query |-> client.query]>>
       /\ ClientEnded =>
             /\ client.invoked = <<[tool |-> "get_product_info", query |-> client.query],
                                   [tool |-> "web_search", query |-> client.query]>>
       /\ client.pc = "done" =>
             /\ client.web_answer.kind = "str"
             /\ Last(client.printed) =
                   [label |-> "Web Search Result", text |-> client.web_answer.text]

C11_Witness ==
    /\ client.pc = "done"
    /\ client.retriever_answer.kind = "str"
    /\ HasSentinel(client.retriever_answer.text)
    /\ Len(client.invoked) = 2
    /\ Last(client.printed).text = <<"w", "e", "b">>

\* C12: when the get_product_info invocation of the client exceeds its
\* timeout, the client falls back as for an empty result: by the end of
\* main web_search has been invoked.
C12_TimeoutFallsBackToWeb ==
    (client.retriever_answer.kind = "timeout" /\ ClientEnded) =>
       \E i \in DOMAIN client.invoked : client.invoked[i].tool = "web_search"

\* C13: the tools are discovered once per instance and reused, also when
\* runs start concurrently before the first discovery completed: once
\* mcp_tools holds the tools, get_tools is not called again and mcp_tools
\* is not assigned again.
C13_ToolsDiscoveredOnce ==
    [][mcp_tools # None => get_tools_calls' = get_tools_calls]_vars

\* the thread of run r holds the run's query followed by the messages of
\* the run's own nodes, and nothing else
OwnMessagesOnly(r) == Messages(r) = <<runs[r].query>> \o runs[r].outs

\* what run r read as query of a tool, as question and as context came
\* from its own query and its own nodes
OwnInputsOnly(r) ==
    LET own == {runs[r].query} \cup Range(runs[r].outs)
    IN  /\ \A i \in DOMAIN runs[r].tool_calls : runs[r].tool_calls[i].query \in own
        /\ runs[r].graded = 1 =>
              /\ runs[r].grade_input.question = runs[r].query
              /\ runs[r].grade_input.docs \in Range(runs[r].outs)
        /\ "Generator" \in Range(runs[r].visited) =>
              /\ runs[r].gen_input.question = runs[r].query
              /\ runs[r].gen_input.context \in Range(runs[r].outs)

\* C14: runs with distinct thread identifiers do not read or modify each
\* other's conversation state, however their steps interleave: the state of
\* a run's thread is the run's query followed by the outputs of its own
\* nodes, every input of its nodes comes from there, its answer is the
\* output of its own last node, and a step that changes the state of a
\* thread is a step of the one run on that thread and only appends.
C14_ThreadsAreIsolated ==
    /\ [](\A r \in RunIds :
            HasState(r) =>
               /\ OwnMessagesOnly(r)
               /\ OwnInputsOnly(r)
               /\ runs[r].pc = "returned" => runs[r].result = Returned(Last(runs[r].outs)))
    /\ [][\A t \in Threads :
            checkpointer'[t] # checkpointer[t] =>
               /\ IsPrefix(checkpointer[t], checkpointer'[t])
               /\ \E r \in RunIds :
                     /\ runs[r].thread = t
                     /\ ~Terminal(r)
                     /\ \A o \in RunIds \ {r} : runs'[o] = runs[o]]_vars

C14_Witness ==
    /\ \A r \in {1, 2} : runs[r].pc = "returned" /\ Len(runs[r].visited) = 5
    /\ runs[1].thread # runs[2].thread
    /\ runs[1].outs # runs[2].outs

\* the header row of the file DataIngestion read lacks one of the six
\* columns
LacksColumn ==
    /\ etl.read.exists
    /\ \E c \in {COL_product_id, COL_product_title, COL_rating, COL_total_reviews,
                  COL_price, COL_top_reviews} :
          c \notin Range(Head(Tokenize(etl.read.text)))

\* C15: when the CSV file lacks one of the columns product_id,
\* product_title, rating, total_reviews, price, top_reviews, DataIngestion()
\* raises ValueError in _load_csv: no object exists to call transform_data
\* on, and no Document is built or stored.
C15_MissingColumnStopsIngestion ==
    LacksColumn =>
       /\ etl.obj = "raised"
       /\ etl.error = "ValueError"
       /\ etl.product_data = NoFrame
       /\ ~etl.transformed
       /\ etl.documents = <<>>
       /\ etl.stored = <<>>

C15_Witness ==
    /\ LacksColumn
    /\ Len(Tokenize(etl.read.text)) = 3
    /\ etl.obj = "raised"
    /\ etl.error = "ValueError"

\* the Document expected for a written product row: the five metadata
\* values and the review text as they were written
WrittenDocument(row) ==
    [page_content |-> StrValue(row[6]),
     metadata |-> [product_id |-> StrValue(row[1]),
                   product_title |-> StrValue(row[2]),
                   rating |-> StrValue(row[3]),
                   total_reviews |-> StrValue(row[4]),
                   price |-> StrValue(row[5])]]

\* C16: loading a file written by save_to_csv and calling transform_data
\* yields one Document per written row, in order, with the written
\* product_id, product_title, rating, total_reviews and price as metadata
\* and the written top_reviews as page_content.
C16_CsvRoundTrip ==
    (etl.file.exists /\ etl.transformed) =>
       /\ Len(etl.documents) = Len(etl.written)
       /\ \A i \in DOMAIN etl.written : etl.documents[i] = WrittenDocument(etl.written[i])

\* C17: load_retriever builds the MMR retriever with k = retriever.top_k
\* of the configuration and with k = 3 when the configuration has no
\* retriever.top_k, be it that the 'retriever' section is missing or that
\* the section has no 'top_k'; it does not fail for lack of the setting.
C17_TopKDefaultsToThree ==
    (retr.built /\ retr.vstore) =>
       /\ retr.error = "none"
       /\ ~retr.retriever_instance.is_none
       /\ retr.retriever_instance.k =
             (IF retr.config.has_retriever /\ retr.config.has_top_k
              THEN retr.config.top_k ELSE 3)

\* C18: a node that completes appends exactly one message, its own, to
\* the conversation state and leaves the earlier messages as they were;
\* evaluating the Grader appends nothing, and the state holds one message
\* per completed node after the run's input (the routing predicate after
\* Assistant added none).
C18_NodeAppendsOneMessage ==
    /\ [](\A r \in RunIds :
            HasState(r) => Len(Messages(r)) = runs[r].base + 1 + Len(runs[r].outs))
    /\ [][\A r \in RunIds :
            /\ (InGraph(r) /\ Len(runs'[r].outs) = Len(runs[r].outs) + 1) =>
                  /\ runs'[r].visited = Append(runs[r].visited, Last(runs'[r].visited))
                  /\ Messages(r)' = Append(Messages(r), Last(runs'[r].outs))
            /\ (InGraph(r) /\ runs'[r].graded = runs[r].graded + 1) =>
                  /\ checkpointer' = checkpointer
                  /\ runs'[r].outs = runs[r].outs]_vars

C18_Witness ==
    \E r \in RunIds :
       /\ runs[r].base > 0
       /\ runs[r].graded = 1
       /\ Len(runs[r].outs) = 5
       /\ Len(Messages(r)) = runs[r].base + 6

\* the reply holds 'yes' in any mix of cases
SaysYes(reply) ==
    \E i \in 1..(Len(reply) - 2) :
       /\ reply[i] \in {"y", "Y"}
       /\ reply[i + 1] \in {"e", "E"}
       /\ reply[i + 2] \in {"s", "S"}

\* the node that follows the Grader in run r, "none" while none ran
AfterGrader(r) ==
    IF Len(runs[r].visited) >= 3 THEN runs[r].visited[3]
    ELSE IF runs[r].pc \in {"Generator", "Rewriter"} THEN runs[r].pc
    ELSE "none"

\* C19: the Grader routes to Generator if and only if the reply to the
\* relevance prompt holds 'yes' in any case; every other reply, the empty
\* one included, routes to Rewriter; the Grader reads the first message as
\* question and the last message as documents.
C19_GraderRoutesOnYes ==
    \A r \in RunIds :
       (runs[r].graded = 1 /\ runs[r].decision # "none") =>
          /\ SaysYes(runs[r].score) => runs[r].decision = "generator"
          /\ ~SaysYes(runs[r].score) => runs[r].decision = "rewriter"
          /\ runs[r].decision = "generator" => AfterGrader(r) = "Generator"
          /\ runs[r].decision = "rewriter" => AfterGrader(r) = "Rewriter"
          /\ runs[r].grade_input.question = Messages(r)[1]
          /\ runs[r].grade_input.docs = Messages(r)[runs[r].base + 3]

C19_Witness ==
    \E r \in RunIds :
       /\ runs[r].graded = 1
       /\ runs[r].score = <<>>
       /\ runs[r].decision = "rewriter"
       /\ Len(runs[r].visited) >= 3
       /\ runs[r].visited[3] = "Rewriter"

\* the message a tool node appends for a tool result
Appended(result, sentinel) == IF result = <<>> THEN sentinel ELSE result

\* C20: Retriever appends 'No data' when get_product_info returns an
\* empty text and WebSearch appends 'No data from web' when web_search
\* returns an empty text; otherwise each appends the tool's text
\* unchanged, so the message of a tool node is never empty.
C20_EmptyToolResultBecomesSentinel ==
    \A r \in RunIds :
       \A i \in DOMAIN runs[r].outs :
          /\ runs[r].visited[i] = "Retriever" =>
                /\ runs[r].tool_calls[1].tool = "get_product_info"
                /\ runs[r].outs[i] =
                      Appended(runs[r].tool_calls[1].result, <<"N", "o", " ", "d", "a", "t", "a">>)
                /\ runs[r].outs[i] # <<>>
          /\ runs[r].visited[i] = "WebSearch" =>
                /\ runs[r].tool_calls[2].tool = "web_search"
                /\ runs[r].outs[i] =
                      Appended(runs[r].tool_calls[2].result,
                               <<"N", "o", " ", "d", "a", "t", "a", " ", "f", "r", "o", "m",
                                 " ", "w", "e", "b">>)
                /\ runs[r].outs[i] # <<>>

C20_Witness ==
    \E r \in RunIds :
       /\ Len(runs[r].outs) >= 4
       /\ runs[r].visited[2] = "Retriever"
       /\ runs[r].tool_calls[1].result = <<>>
       /\ runs[r].outs[2] = <<"N", "o", " ", "d", "a", "t", "a">>
       /\ runs[r].visited[4] = "WebSearch"
       /\ runs[r].tool_calls[2].result = <<>>
       /\ runs[r].outs[4] = <<"N", "o", " ", "d", "a", "t", "a", " ", "f", "r", "o", "m",
                               " ", "w", "e", "b">>

\* C21: the query Retriever sends to get_product_info is the text of the
\* user's query of the run, and the query WebSearch sends to web_search is
\* the rewritten query that Rewriter appended.
C21_ToolsGetTheRightQuery ==
    \A r \in RunIds :
       \A i \in DOMAIN runs[r].tool_calls :
          /\ runs[r].tool_calls[i].tool = "get_product_info" =>
                runs[r].tool_calls[i].query = runs[r].query
          /\ runs[r].tool_calls[i].tool = "web_search" =>
                /\ Len(runs[r].outs) >= 3
                /\ runs[r].visited[3] = "Rewriter"
                /\ runs[r].tool_calls[i].query = runs[r].outs[3]

\* C22: in every run, also one that reuses a thread identifier or takes
\* the default one, the question that Grader, Rewriter and Generator read
\* is the query passed to that run.
C22_QuestionIsTheRunsQuery ==
    \A r \in RunIds :
       /\ (runs[r].graded = 1 /\ runs[r].decision # "none") =>
             runs[r].grade_input.question = runs[r].query
       /\ (\E i \in DOMAIN runs[r].llm_calls : runs[r].llm_calls[i].by = "Rewriter") =>
             runs[r].rewrite_input = runs[r].query
       /\ (\E i \in DOMAIN runs[r].llm_calls : runs[r].llm_calls[i].by = "Generator") =>
             runs[r].gen_input.question = runs[r].query

====
